---- MODULE Spec2Model ----
(***************************************************************************)
(* A model of the Virtual Book Club client (src/virtual-book-club.py):     *)
(* the genre search with its alias fallback, the description fetcher, the  *)
(* liveness probe, the analysis request and the handlers of the Gradio     *)
(* interface; and of the setup script (src/test_setup.py).                 *)
(*                                                                         *)
(* Texts whose characters matter (descriptions, model output) are          *)
(* sequences of one-character strings.  A value that may be absent         *)
(* (Python None, a missing dict key) is the empty tuple <<>>, a present    *)
(* value v is the one-element tuple <<v>>.                                 *)
(***************************************************************************)
EXTENDS Integers, Sequences, FiniteSets, TLC

VARIABLES
  now,                \* the clock time.time() reads, in seconds
  last_request_time,  \* self.last_request_time: <<>> (None) or <<t>>
  \* search_books_by_genre
  spc,                \* where the call stands
  genre_in,           \* the genre argument as passed
  genre,              \* the local genre after normalisation
  limit,              \* the limit argument
  params,             \* the local params of the search request
  response,           \* the outcome of the last search request
  idx,                \* position of the for loop in the docs
  books,              \* the local list books
  accepted,           \* the docs the records of books were built from
  primary_valid,      \* <<n>>: the primary payload held n complete docs
  result,             \* what the call returned
  requests,           \* the requests this call sent to the metadata service
  fetches,            \* the calls of get_book_description this call made
  \* get_book_description called alone
  dpc,                \* "idle" | "called" | "done"
  dkey,               \* its book_key argument
  dreply,             \* the upstream reply to its detail request
  dresult,            \* what it returned, or the exception that left it
  placeholders,       \* the placeholder strings returned so far on a failed fetch
  \* analyze_book_with_ollama
  apc,                \* where the call stands
  book,               \* the book argument
  analysis_type,      \* the analysis_type argument
  available,          \* <<>> or <<r>>, r what check_ollama_availability returned
  aresponse,          \* the outcome of the last POST to the model server
  posts,              \* the POSTs this call sent to the model server
  aresult,            \* what the call returned
  \* check_ollama_availability called alone
  cpc,                \* "idle" | "wait"
  checks,             \* the calls so far: the probe's reply, what was returned
  probe_posts,        \* the number of probe POSTs these calls sent
  \* test_setup.py
  tpc,                \* "idle" | "checks" | "model_test" | "summary" | "exited"
  env,                \* what the script finds installed
  tests,              \* the list tests of main
  recommended,        \* print_recommendations was called
  exit_status,        \* <<>> or <<n>>, n the status passed to sys.exit
  \* the Gradio interface
  books_state,        \* gr.State([]): the list of the last search
  selected_book_state,\* gr.State(None): <<>> or <<book>>
  book_selector,      \* the dropdown of books: its choices, its value
  books_display,      \* the Markdown of the search results
  analysis_display,   \* the Markdown of the analysis
  status_display,     \* the status line
  ui_event,           \* the handler that ran last: "none", "search", "select", "analyze"
  ui_raised           \* the exception that left it, "" when it returned

searchVars == <<spc, genre_in, genre, limit, params, response, idx, books,
                accepted, primary_valid, result, requests, fetches>>
descVars == <<dpc, dkey, dreply, dresult, placeholders>>
analyzeVars == <<apc, book, analysis_type, available, aresponse, posts, aresult>>
clockVars == <<now, last_request_time>>

probeVars == <<cpc, checks, probe_posts>>
setupVars == <<tpc, env, tests, recommended, exit_status>>
uiVars == <<books_state, selected_book_state, book_selector, books_display,
            analysis_display, status_display, ui_event, ui_raised>>
otherVars == <<probeVars, setupVars, uiVars>>
vars == <<clockVars, searchVars, descVars, analyzeVars, otherVars>>

-----------------------------------------------------------------------------
(* Bounds of the model *)

MaxEdge == 2        \* longest text put before the padding of a description
MaxDocs == 2        \* most docs in one search payload
MaxLimit == 1       \* small limits run from 0 to this
MaxRateDocs == 1    \* most docs in one payload when calls follow one another
MaxTime == 3        \* the clock stops here
MaxTextLen == 11    \* longest text the model server replies with
MaxChecks == 2      \* most calls of check_ollama_availability on one instance

(* Program constants *)

DescriptionLimit == 500     \* len(description) > 500, description[:500]
min_request_interval == 1   \* self.min_request_interval = 1.0
DefaultLimit == 20          \* limit=20
MaxRawResults == 40         \* min(limit * 2, 40)
MinAnalysisLen == 10        \* len(analysis.strip()) > 10
OLLAMA_TIMEOUT == 30        \* self.OLLAMA_TIMEOUT = 30
ANALYSIS_TIMEOUT == 120     \* self.ANALYSIS_TIMEOUT = 120

-----------------------------------------------------------------------------
(* Characters and texts *)

Alphabet == {"a", " ", "<", ">"}

IsSpace(c) == c \in {" ", "\t", "\n"}

TextsUpTo(n) == UNION {[1..k -> Alphabet] : k \in 0..n}

Pad(n) == [i \in 1..n |-> "a"]

Ellipsis == <<".", ".", ".">>

(* The index/character pairs of s, in order. *)
Indexed(s) == [i \in 1..Len(s) |-> <<i, s[i]>>]

(* The characters of a sequence of index/character pairs. *)
Chars(ps) == [k \in 1..Len(ps) |-> ps[k][2]]

(* re.sub(r'<[^>]+>', '', s).  A match starts at a "<", takes one or more   *)
(* characters other than ">" and ends at the first ">" that follows; the    *)
(* scan is leftmost-first and matches do not overlap.  No match holds a     *)
(* ">" before its last character, so each match lies between two            *)
(* consecutive ">" and starts at the first "<" after the previous ">" that  *)
(* leaves at least one character before the closing ">".                    *)
TagMatches(s) ==
  LET GT == {g \in 1..Len(s) : s[g] = ">"}
      LT == {p \in 1..Len(s) : s[p] = "<"}
      PrevGt(g) == LET B == {k \in GT : k < g}
                   IN IF B = {} THEN 0 ELSE CHOOSE k \in B : \A j \in B : j <= k
      Starts(g) == {p \in LT : PrevGt(g) < p /\ p <= g - 2}
  IN {<<CHOOSE p \in Starts(g) : \A q \in Starts(g) : p <= q, g>> :
         g \in {h \in GT : Starts(h) # {}}}

StripTags(s) ==
  LET M == TagMatches(s)
      Kept(p) == \A m \in M : p[1] < m[1] \/ p[1] > m[2]
  IN Chars(SelectSeq(Indexed(s), Kept))

(* re.sub(r'\s+', ' ', s): every run of whitespace becomes one space. *)
CollapseSpaces(s) ==
  LET First(p) == ~IsSpace(p[2]) \/ p[1] = 1 \/ ~IsSpace(s[p[1] - 1])
      ps == SelectSeq(Indexed(s), First)
  IN [k \in 1..Len(ps) |-> IF IsSpace(ps[k][2]) THEN " " ELSE ps[k][2]]

RECURSIVE LStrip(_)
LStrip(s) == IF s # <<>> /\ IsSpace(Head(s)) THEN LStrip(Tail(s)) ELSE s

RECURSIVE RStrip(_)
RStrip(s) ==
  IF s # <<>> /\ IsSpace(s[Len(s)]) THEN RStrip(SubSeq(s, 1, Len(s) - 1)) ELSE s

(* str.strip() *)
Strip(s) == RStrip(LStrip(s))

(* Lines 225-226: tags removed, whitespace collapsed, trimmed. *)
Sanitize(s) == Strip(CollapseSpaces(StripTags(s)))

TruncateCutsEarly(d) ==
  IF Len(d) >= DescriptionLimit
  THEN SubSeq(d, 1, DescriptionLimit - 1) \o Ellipsis
  ELSE d

(* Lines 227-228 *)
Truncate(d) ==
  IF Len(d) > DescriptionLimit
  THEN SubSeq(d, 1, DescriptionLimit) \o Ellipsis
  ELSE d

-----------------------------------------------------------------------------
(* The description fetcher *)

NoDescription == "No description available."
DescriptionNotAvailable == "Description not available."

(* What get_book_description returns: a placeholder string or a text. *)
Placeholder(p) == [placeholder |-> p, text |-> <<>>]
DescriptionText(d) == [placeholder |-> "", text |-> d]

(* A reply to a GET: a transport failure, or a status with a body.  The    *)
(* body of a detail record is read only for its description field:         *)
(* "absent", "null", "str" (plain text), "dict" ({value: text}),           *)
(* "dict_novalue" ({} without value), or "other" (any other JSON type).    *)
DetailReply(outcome, status, json, shape, text) ==
  [outcome |-> outcome, status |-> status, json |-> json, shape |-> shape,
   text |-> text]

TransportFailures == {"ConnectionError", "Timeout", "Exception"}

FailedReply(outcome) == DetailReply(outcome, 0, "none", "absent", <<>>)
StatusReply(status) == DetailReply("response", status, "none", "absent", <<>>)
BadJsonReply == DetailReply("response", 200, "invalid", "absent", <<>>)
BodyReply(shape, text) == DetailReply("response", 200, "object", shape, text)

(* Lines 218-222: the description text taken from the detail record. *)
ExtractDescription(reply) ==
  CASE reply.shape = "dict" -> reply.text
    [] reply.shape = "str" -> reply.text
    [] OTHER -> <<>>

(* Lines 208-235.  "raised" names the exception that leaves the try block, *)
(* "" when none does; the handler of line 234 catches every Exception.     *)
DescriptionBody(book_key, reply) ==
  IF book_key = "" THEN [raised |-> "", value |-> Placeholder(NoDescription)]
  ELSE IF reply.outcome # "response"
    THEN [raised |-> reply.outcome, value |-> Placeholder("")]
  ELSE IF reply.status # 200
    THEN [raised |-> "", value |-> Placeholder(DescriptionNotAvailable)]
  ELSE IF reply.json # "object"
    THEN [raised |-> "ValueError", value |-> Placeholder("")]
  ELSE LET description == ExtractDescription(reply)
           cleaned == IF description # <<>>
                      THEN Truncate(Sanitize(description))
                      ELSE description
       IN [raised |-> "",
           value |-> IF cleaned # <<>> THEN DescriptionText(cleaned)
                     ELSE Placeholder(NoDescription)]

DescriptionFetchedOnce(book_key, reply) ==
  LET r == DescriptionBody(book_key, reply)
  IN IF book_key # "" /\ \E i \in 1..Len(fetches) : fetches[i].key = book_key
     THEN [raised |-> "", value |-> Placeholder(NoDescription)]
     ELSE IF r.raised # ""
     THEN [raised |-> "", value |-> Placeholder(DescriptionNotAvailable)]
     ELSE r

(* Lines 206-235: the body under the handler "except Exception" of line 234. *)
get_book_description(book_key, reply) ==
  LET r == DescriptionBody(book_key, reply)
  IN IF r.raised # ""
     THEN [raised |-> "", value |-> Placeholder(DescriptionNotAvailable)]
     ELSE r

-----------------------------------------------------------------------------
(* Inputs of the description fetcher checked alone *)

(* Padding that brings a text to either side of the truncation limit. *)
PadLengths ==
  {0} \cup ((DescriptionLimit - MaxEdge - 1) .. (DescriptionLimit + 1))

Tails == {<<>>, <<" ">>, <<">">>}

DescriptionTexts ==
  {h \o Pad(n) \o t : h \in TextsUpTo(MaxEdge), n \in PadLengths, t \in Tails}

DetailReplies ==
  {FailedReply(o) : o \in TransportFailures}
  \cup {StatusReply(s) : s \in {404, 500}}
  \cup {BadJsonReply}
  \cup {BodyReply(sh, <<>>) :
          sh \in {"absent", "null", "dict_novalue", "other", "str", "dict"}}
  \cup {BodyReply(sh, t) : sh \in {"str", "dict"}, t \in DescriptionTexts}

(* The fetch failed or brought nothing: transport failure, a status other  *)
(* than 200, no description field, an empty description.                   *)
FetchFailed(reply) ==
  \/ reply.outcome # "response"
  \/ reply.status # 200
  \/ reply.json = "object" /\ reply.shape = "absent"
  \/ reply.json = "object" /\ reply.shape \in {"str", "dict"} /\ reply.text = <<>>

NoReply == FailedReply("Exception")
NoResult == [raised |-> "", value |-> Placeholder("")]

DescCall(key, reply) ==
  /\ dpc = "idle"
  /\ dpc' = "called"
  /\ dkey' = key
  /\ dreply' = reply
  /\ UNCHANGED <<clockVars, searchVars, otherVars, analyzeVars, dresult, placeholders>>

DescReturn ==
  /\ dpc = "called"
  /\ dpc' = "done"
  /\ dresult' = get_book_description(dkey, dreply)
  /\ placeholders' =
       IF dkey # "" /\ FetchFailed(dreply) /\ dresult'.raised = ""
       THEN placeholders \cup {dresult'.value.placeholder}
       ELSE placeholders
  /\ UNCHANGED <<clockVars, searchVars, otherVars, analyzeVars, dkey, dreply>>

DescReset ==
  /\ dpc = "done"
  /\ dpc' = "idle"
  /\ dkey' = ""
  /\ dreply' = NoReply
  /\ dresult' = NoResult
  /\ UNCHANGED <<clockVars, searchVars, otherVars, analyzeVars, placeholders>>

-----------------------------------------------------------------------------
(* The genre argument.  A genre string is a sequence of tokens: a word, or *)
(* one whitespace character (" " or "\t").  "*" stands for the emoji that  *)
(* the dropdown puts before a genre.                                       *)

GenreArg(none, toks) == [none |-> none, toks |-> toks]

Lower(w) ==
  CASE w = "Sci-Fi" -> "sci-fi"
    [] w = "Fantasy" -> "fantasy"
    [] OTHER -> w

(* str.lower() *)
LowerAll(toks) == [i \in 1..Len(toks) |-> Lower(toks[i])]

(* genre.split(' ', 1)[1]: what follows the first space. *)
AfterFirstSpace(toks) ==
  LET first == CHOOSE i \in 1..Len(toks) :
                 toks[i] = " " /\ \A j \in 1..(i - 1) : toks[j] # " "
  IN SubSeq(toks, first + 1, Len(toks))

InvalidGenreNoStrip(g) == g.none \/ g.toks = <<>>

(* Line 80: not genre or not genre.strip() *)
InvalidGenre(g) == g.none \/ g.toks = <<>> \/ Strip(g.toks) = <<>>

(* Lines 84-89 *)
NormalizeGenre(toks) ==
  LET stripped == Strip(toks)
  IN IF \E i \in 1..Len(stripped) : stripped[i] = " "
     THEN LowerAll(AfterFirstSpace(stripped))
     ELSE LowerAll(stripped)

(* Lines 151-157 *)
alternative_genres ==
  (<<"psychology">> :> <<"psychology">>)
  @@ (<<"fantasy">> :> <<"fantasy", " ", "fiction">>)
  @@ (<<"self-help">> :> <<"self", " ", "help">>)
  @@ (<<"science", " ", "fiction">> :> <<"science", " ", "fiction">>)
  @@ (<<"sci-fi">> :> <<"science", " ", "fiction">>)

-----------------------------------------------------------------------------
(* Docs of a search payload and the records built from them *)

(* A value of one of the other fields of a doc: None, a string, a number   *)
(* (written as its text) or a list of strings.                             *)
PyNone == [type |-> "None", items |-> <<>>]
PyStr(text) == [type |-> "str", items |-> <<text>>]
PyInt(text) == [type |-> "int", items |-> <<text>>]
PyFloat(text) == [type |-> "float", items |-> <<text>>]
PyList(items) == [type |-> "list", items |-> items]

(* The value is truthy: not None, not "", not []; the numbers are not 0. *)
Truthy(v) == v.type # "None" /\ v.items # <<>> /\ v.items # <<"">>

(* A doc with the five fields given; the other fields are absent.  A key   *)
(* <<"">> is a key that is present and falsy ("" or []).                   *)
Doc(title, author_name, first_publish_year, key, subject) ==
  [title |-> title, author_name |-> author_name,
   first_publish_year |-> first_publish_year, key |-> key, subject |-> subject,
   language |-> <<>>, number_of_pages_median |-> <<>>, cover_i |-> <<>>,
   isbn |-> <<>>, publisher |-> <<>>, ratings_average |-> <<>>]

Dune == Doc(<<"Dune">>, << <<"Frank Herbert">> >>, <<"1965">>,
            <<"/works/OL1W">>, << << <<"Science", " ", "fiction">> >> >>)
Emma == Doc(<<"Emma">>, << <<"Jane Austen">> >>, <<"1815">>, <<>>, <<>>)

Docs ==
  {Dune, Emma,
   [Dune EXCEPT !.title = <<>>], [Dune EXCEPT !.title = <<"">>],
   [Dune EXCEPT !.author_name = <<>>], [Dune EXCEPT !.author_name = << <<>> >>],
   [Dune EXCEPT !.first_publish_year = <<>>],
   [Dune EXCEPT !.first_publish_year = <<"">>]}

(* dict.get(k, default) *)
Get(field, default) == IF Len(field) = 0 THEN default ELSE field[1]

(* dict.get(k) is truthy: present and neither "" nor []. *)
TruthyStr(field) == Len(field) = 1 /\ field[1] # ""
TruthyList(field) == Len(field) = 1 /\ Len(field[1]) > 0

(* A doc that carries a title, an author and a year of first publication. *)
Complete(doc) ==
  /\ doc.title # <<>> /\ doc.title # <<"">>
  /\ doc.author_name # <<>> /\ doc.author_name # << <<>> >>
  /\ doc.first_publish_year # <<>> /\ doc.first_publish_year # <<"">>

PassesFilterWithoutYear(doc) == TruthyStr(doc.title) /\ TruthyList(doc.author_name)

(* Lines 114-116 and 167-169 *)
PassesFilter(doc) ==
  /\ TruthyStr(doc.title)
  /\ TruthyList(doc.author_name)
  /\ TruthyStr(doc.first_publish_year)

open_library_base == "https://openlibrary.org"

Min(a, b) == IF a <= b THEN a ELSE b

(* s[:n] *)
FirstN(s, n) == SubSeq(s, 1, Min(n, Len(s)))

(* Lines 119-137, and 171-189 on the alias path, where subjects is [genre]. *)
BookInfo(doc, g, on_alias, search_params) ==
  LET book_key == Get(doc.key, "")
  IN [title |-> Get(doc.title, "Unknown Title"),
      authors |-> Get(doc.author_name, <<"Unknown Author">>),
      first_publish_year |-> Get(doc.first_publish_year, "Unknown"),
      subjects |-> IF ~on_alias /\ TruthyList(doc.subject)
                   THEN doc.subject[1] ELSE <<g>>,
      language |-> Get(doc.language, PyList(<<"English">>)),
      page_count |-> Get(doc.number_of_pages_median, PyStr("Unknown")),
      key |-> book_key,
      cover_id |-> Get(doc.cover_i, PyNone),
      isbn |-> Get(doc.isbn, PyList(<<>>)),
      publisher |-> LET p == Get(doc.publisher, PyList(<<"Unknown Publisher">>))
                    IN [p EXCEPT !.items = FirstN(@, 3)],
      rating |-> Get(doc.ratings_average, PyStr("No rating available")),
      description |-> Placeholder("Description will be fetched separately"),
      source_url |-> IF book_key # "" THEN <<open_library_base, book_key>>
                     ELSE <<"Not available">>,
      search_api_url |-> search_params]

-----------------------------------------------------------------------------
(* Requests, replies and results of the search *)

SearchRequest(p, t) ==
  [kind |-> "search", subject |-> p.subject, limit |-> p.limit, key |-> "", at |-> t]
DetailRequest(k, t) ==
  [kind |-> "detail", subject |-> <<>>, limit |-> 0, key |-> k, at |-> t]

SearchRequests(log) == SelectSeq(log, LAMBDA r : r.kind = "search")

SearchReply(outcome, status, json, docs) ==
  [outcome |-> outcome, status |-> status, json |-> json, docs |-> docs]

NoResponse == SearchReply("none", 0, "none", <<>>)

Payloads(n) == UNION {[1..k -> Docs] : k \in 0..n}

SearchReplies(n) ==
  {SearchReply(o, 0, "none", <<>>) : o \in TransportFailures}
  \cup {SearchReply("response", s, "none", <<>>) : s \in {404, 500}}
  \cup {SearchReply("response", 200, "invalid", <<>>)}
  \cup {SearchReply("response", 200, "object", d) : d \in Payloads(n)}

(* The detail replies met during a search. *)
SearchDetailReplies ==
  {FailedReply("Timeout"), BodyReply("absent", <<>>), BodyReply("str", <<"a", "<", "a", ">", " ">>)}

(* One call of get_book_description made by the search: its argument, the  *)
(* reply to its detail request (none when the key is empty, line 209) and  *)
(* what it returned.                                                       *)
Fetch(book_key, reply, description) ==
  [key |-> book_key, reply |-> IF book_key # "" THEN reply ELSE NoReply,
   description |-> description]

BooksResult(bs) == [kind |-> "books", books |-> bs, text |-> "", detail |-> <<>>]
Message(text, detail) == [kind |-> "message", books |-> <<>>, text |-> text, detail |-> detail]
NoneYet == [kind |-> "none", books |-> <<>>, text |-> "", detail |-> <<>>]

InvalidGenreMessage == Message("Please enter a valid genre", <<>>)
ApiErrorMessage(status) == Message("Open Library API Error: Status code", <<status>>)
TimeoutMessage == Message("Error: Request timed out. Please try again.", <<>>)
ExceptionMessage(e) == Message("Error searching books:", <<e>>)
NoBooksMessage(g) == Message("No books found for genre", <<g>>)

(* Lines 35-39: the time at which _rate_limit returns. *)
RateLimitedTime(t, last) ==
  IF Len(last) = 1 /\ last[1] # 0 /\ t - last[1] < min_request_interval
  THEN last[1] + min_request_interval
  ELSE t

(* Line 99 *)
RawLimit(l) == Min(l * 2, MaxRawResults)

NeedsAliasEvenWithBooks(bs, g) == g \in DOMAIN alternative_genres

(* Lines 147-159: the alias search is tried. *)
NeedsAlias(bs, g) == bs = <<>> /\ g \in DOMAIN alternative_genres

(* Lines 144 and 196 *)
ReachedLimit(bs, l) == Len(bs) >= l

-----------------------------------------------------------------------------
(* search_books_by_genre, lines 77-204 *)

(* Lines 80-104: validation, normalisation, _rate_limit, the primary request. *)
SearchCall(g, l) ==
  /\ spc = "idle"
  /\ RateLimitedTime(now, last_request_time) <= MaxTime
  /\ genre_in' = g
  /\ limit' = l
  /\ IF InvalidGenre(g)
     THEN /\ result' = InvalidGenreMessage
          /\ spc' = "done"
          /\ UNCHANGED <<clockVars, genre, params, requests>>
     ELSE LET t == RateLimitedTime(now, last_request_time)
              p == [subject |-> NormalizeGenre(g.toks), limit |-> RawLimit(l),
                    has_fulltext |-> "true", language |-> "eng"]
          IN /\ now' = t
             /\ last_request_time' = <<t>>
             /\ genre' = NormalizeGenre(g.toks)
             /\ params' = p
             /\ requests' = <<SearchRequest(p, t)>>
             /\ spc' = "primary_wait"
             /\ UNCHANGED result
  /\ UNCHANGED <<response, idx, books, accepted, primary_valid, fetches,
                 descVars, analyzeVars, otherVars>>

(* A request that raised: lines 201-204. *)
RaisedMessage(outcome) ==
  IF outcome = "Timeout" THEN TimeoutMessage ELSE ExceptionMessage(outcome)

(* Lines 104-110: the reply to the primary request. *)
PrimaryReply(reply) ==
  /\ spc = "primary_wait"
  /\ response' = reply
  /\ IF reply.outcome # "response"
     THEN /\ result' = RaisedMessage(reply.outcome)
          /\ spc' = "done"
          /\ UNCHANGED <<idx, primary_valid>>
     ELSE IF reply.status # 200
     THEN /\ result' = ApiErrorMessage(reply.status)
          /\ spc' = "done"
          /\ UNCHANGED <<idx, primary_valid>>
     ELSE IF reply.json # "object"
     THEN /\ result' = RaisedMessage("ValueError")
          /\ spc' = "done"
          /\ UNCHANGED <<idx, primary_valid>>
     ELSE /\ idx' = 1
          /\ primary_valid' = <<Len(SelectSeq(reply.docs, Complete))>>
          /\ spc' = IF reply.docs = <<>> THEN "primary_collected" ELSE "primary_loop"
          /\ UNCHANGED result
  /\ UNCHANGED <<clockVars, genre_in, genre, limit, params, books, accepted,
                 requests, fetches, descVars, analyzeVars, otherVars>>

(* One turn of the for loop, lines 112-145 and 166-197: the filter, the    *)
(* record, its description (one detail request when the doc has a key),    *)
(* the append and the test of the limit.                                   *)
LoopStep(on_alias, detail) ==
  /\ spc = (IF on_alias THEN "alias_loop" ELSE "primary_loop")
  /\ LET doc == response.docs[idx]
         info == BookInfo(doc, genre, on_alias, params)
         fetched == get_book_description(info.key, detail).value
         grown == Append(books, [info EXCEPT !.description = fetched])
         collected == IF on_alias THEN "alias_collected" ELSE "primary_collected"
     IN IF PassesFilter(doc)
        THEN /\ books' = grown
             /\ accepted' = Append(accepted, doc)
             /\ fetches' = Append(fetches, Fetch(info.key, detail, fetched))
             /\ requests' = IF info.key # ""
                            THEN Append(requests, DetailRequest(info.key, now))
                            ELSE requests
             /\ IF ReachedLimit(grown, limit) \/ idx = Len(response.docs)
                THEN spc' = collected /\ UNCHANGED idx
                ELSE idx' = idx + 1 /\ UNCHANGED spc
        ELSE /\ UNCHANGED <<books, accepted, requests, fetches>>
             /\ IF idx = Len(response.docs)
                THEN spc' = collected /\ UNCHANGED idx
                ELSE idx' = idx + 1 /\ UNCHANGED spc
  /\ UNCHANGED <<clockVars, genre_in, genre, limit, params, response,
                 primary_valid, result, descVars, analyzeVars, otherVars>>

(* Lines 147-162 and 199: after the primary loop. *)
AfterPrimary ==
  /\ spc = "primary_collected"
  /\ IF NeedsAlias(books, genre)
     THEN /\ params' = [params EXCEPT !.subject = alternative_genres[genre]]
          /\ requests' = Append(requests, SearchRequest(params', now))
          /\ spc' = "alias_wait"
          /\ UNCHANGED result
     ELSE /\ result' = IF books # <<>> THEN BooksResult(books)
                       ELSE NoBooksMessage(genre)
          /\ spc' = "done"
          /\ UNCHANGED <<params, requests>>
  /\ UNCHANGED <<clockVars, genre_in, genre, limit, response, idx, books,
                 accepted, primary_valid, fetches, descVars, analyzeVars, otherVars>>

(* Lines 162-166 and 199: the reply to the alias request. *)
AliasReply(reply) ==
  /\ spc = "alias_wait"
  /\ response' = reply
  /\ IF reply.outcome # "response"
     THEN /\ result' = RaisedMessage(reply.outcome)
          /\ spc' = "done"
          /\ UNCHANGED idx
     ELSE IF reply.status # 200
     THEN /\ result' = IF books # <<>> THEN BooksResult(books)
                       ELSE NoBooksMessage(genre)
          /\ spc' = "done"
          /\ UNCHANGED idx
     ELSE IF reply.json # "object"
     THEN /\ result' = RaisedMessage("ValueError")
          /\ spc' = "done"
          /\ UNCHANGED idx
     ELSE /\ idx' = 1
          /\ spc' = IF reply.docs = <<>> THEN "alias_collected" ELSE "alias_loop"
          /\ UNCHANGED result
  /\ UNCHANGED <<clockVars, genre_in, genre, limit, params, books, accepted,
                 primary_valid, requests, fetches, descVars, analyzeVars, otherVars>>

(* Line 199: after the alias loop. *)
AfterAlias ==
  /\ spc = "alias_collected"
  /\ result' = IF books # <<>> THEN BooksResult(books) ELSE NoBooksMessage(genre)
  /\ spc' = "done"
  /\ UNCHANGED <<clockVars, genre_in, genre, limit, params, response, idx,
                 books, accepted, primary_valid, requests, fetches, descVars,
                 analyzeVars, otherVars>>

NoGenre == GenreArg(TRUE, <<>>)
NoParams == [subject |-> <<>>, limit |-> 0, has_fulltext |-> "true", language |-> "eng"]

(* The locals of a call of search_books_by_genre are gone. *)
ReturnFromSearch ==
  /\ spc' = "idle"
  /\ genre_in' = NoGenre
  /\ genre' = <<>>
  /\ limit' = 0
  /\ params' = NoParams
  /\ response' = NoResponse
  /\ idx' = 0
  /\ books' = <<>>
  /\ accepted' = <<>>
  /\ primary_valid' = <<>>
  /\ result' = NoneYet
  /\ requests' = <<>>
  /\ fetches' = <<>>

(* The caller has the result. *)
SearchReturn ==
  /\ spc = "done"
  /\ ReturnFromSearch
  /\ UNCHANGED <<clockVars, descVars, analyzeVars, otherVars>>

(* Time passes between two calls. *)
Tick ==
  /\ spc = "idle"
  /\ now < MaxTime
  /\ now' = now + 1
  /\ UNCHANGED <<last_request_time, searchVars, descVars, analyzeVars, otherVars>>

-----------------------------------------------------------------------------
(* Inputs of the search *)

GenreArgs ==
  {NoGenre, GenreArg(FALSE, <<>>), GenreArg(FALSE, <<" ", "\t">>),
   GenreArg(FALSE, <<"sci-fi">>), GenreArg(FALSE, <<" ", "Sci-Fi", " ">>),
   GenreArg(FALSE, <<"*", " ", "science", " ", "fiction">>),
   GenreArg(FALSE, <<"*", " ", "mystery">>),
   GenreArg(FALSE, <<"*", " ", "fantasy">>)}

Limits == (0 .. MaxLimit) \cup {DefaultLimit, DefaultLimit + 1}

-----------------------------------------------------------------------------
(* The model server: replies, the liveness probe, the analysis request *)

(* A reply to a POST: a transport failure, or a status with a body.  The   *)
(* body is read only for its response field: "absent", "null" or "str".    *)
PostReply(outcome, status, json, field, text) ==
  [outcome |-> outcome, status |-> status, json |-> json, field |-> field,
   text |-> text]

NoPostReply == PostReply("none", 0, "none", "absent", <<>>)

ReplyTexts == UNION {[1..k -> {"a", " "}] : k \in 0..MaxTextLen}

ProbeReplies ==
  {PostReply(o, 0, "none", "absent", <<>>) : o \in TransportFailures}
  \cup {PostReply("response", s, "none", "absent", <<>>) : s \in {404, 500}}
  \cup {PostReply("response", 200, "invalid", "absent", <<>>)}
  \cup {PostReply("response", 200, "object", f, <<>>) : f \in {"absent", "null", "str"}}
  \cup {PostReply("response", 200, "object", "str", <<"a">>)}

GenerateReplies ==
  {PostReply(o, 0, "none", "absent", <<>>) : o \in TransportFailures}
  \cup {PostReply("response", s, "none", "absent", <<>>) : s \in {404, 500}}
  \cup {PostReply("response", 200, "invalid", "absent", <<>>)}
  \cup {PostReply("response", 200, "object", f, <<>>) : f \in {"absent", "null"}}
  \cup {PostReply("response", 200, "object", "str", t) : t \in ReplyTexts}

model == "phi3:mini"

Availability(ok, text, detail) == [available |-> ok, text |-> text, detail |-> detail]

AvailableOnStatusAlone(reply) ==
  IF reply.outcome = "response" /\ reply.status = 200
  THEN Availability(TRUE, "Ollama is available and responding", <<>>)
  ELSE Availability(FALSE, "Ollama error:", <<reply.outcome>>)

(* Lines 41-75 *)
check_ollama_availability(reply) ==
  IF reply.outcome = "ConnectionError"
    THEN Availability(FALSE, "Ollama server not running (connection refused)", <<>>)
  ELSE IF reply.outcome = "Timeout"
    THEN Availability(FALSE, "Ollama server timeout after", <<OLLAMA_TIMEOUT>>)
  ELSE IF reply.outcome # "response"
    THEN Availability(FALSE, "Ollama error:", <<reply.outcome>>)
  ELSE IF reply.status # 200
    THEN Availability(FALSE, "Ollama returned status", <<reply.status>>)
  ELSE IF reply.json # "object"
    THEN Availability(FALSE, "Ollama error:", <<"ValueError">>)
  ELSE IF reply.field # "absent"
    THEN Availability(TRUE, "Ollama is available and responding", <<>>)
  ELSE Availability(FALSE, "Ollama responded but format unexpected", <<>>)

(* Lines 43-53: check_ollama_availability called on its own, as at line    *)
(* 556: the probe POST is sent.                                            *)
CheckCall ==
  /\ cpc = "idle"
  /\ Len(checks) < MaxChecks
  /\ cpc' = "wait"
  /\ probe_posts' = probe_posts + 1
  /\ UNCHANGED <<clockVars, searchVars, descVars, analyzeVars, setupVars, uiVars, checks>>

(* Lines 55-75: the reply to the probe, and what the call returns. *)
CheckReply(reply) ==
  /\ cpc = "wait"
  /\ checks' = Append(checks, [reply |-> reply,
                                returned |-> check_ollama_availability(reply)])
  /\ cpc' = "idle"
  /\ UNCHANGED <<clockVars, searchVars, descVars, analyzeVars, setupVars, uiVars,
                 probe_posts>>

(* The book argument: None, an empty dict, or a record of a search. *)
BookArg(kind, info) == [kind |-> kind, info |-> info]

NoInfo == BookInfo(Doc(<<>>, <<>>, <<>>, <<>>, <<>>), <<>>, TRUE, NoParams)
NoBook == BookArg("None", NoInfo)

FetchedInfo(doc) ==
  [BookInfo(doc, <<"fiction">>, FALSE, NoParams)
     EXCEPT !.description = Placeholder(NoDescription)]

BookArgs == {NoBook, BookArg("empty", NoInfo),
             BookArg("record", FetchedInfo(Dune)), BookArg("record", FetchedInfo(Emma))}

AnalysisTypes == {"summary", "reading_guide", "surprise"}

BookAbsentOnlyNone(b) == b.kind = "None"

(* Line 297: not book *)
BookAbsent(b) == b.kind \in {"None", "empty"}

(* Lines 308-338: the template chosen, with the title and the first author. *)
Prompt(b, type) ==
  [template |-> IF type \in {"summary", "discussion", "reading_guide", "recommendation"}
                THEN type ELSE "summary",
   title |-> b.info.title,
   author |-> b.info.authors[1]]

ProbePost == [purpose |-> "probe", prompt |-> <<"Hello">>, timeout |-> OLLAMA_TIMEOUT]
GeneratePost(prompt) ==
  [purpose |-> "generate", prompt |-> <<prompt>>, timeout |-> ANALYSIS_TIMEOUT]

Analysis(text, footer) ==
  [kind |-> "analysis", text |-> "", detail |-> <<>>, analysis |-> text, footer |-> footer]
AnalysisError(text, detail) ==
  [kind |-> "message", text |-> text, detail |-> detail, analysis |-> <<>>, footer |-> <<>>]
NoAnalysisYet ==
  [kind |-> "none", text |-> "", detail |-> <<>>, analysis |-> <<>>, footer |-> <<>>]

NoBookSelected == AnalysisError("No book selected for analysis.", <<>>)
(* "To fix: 1. Open new terminal 2. Run: ollama serve 3. Try again" *)
OllamaError(status) ==
  AnalysisError("Ollama Error: ... To fix: ... Run: ollama serve", <<status.text, status.detail>>)
EmptyResponse == AnalysisError("Error: Empty response generated. Please try again.", <<>>)
StatusError(status) == AnalysisError("Error: Ollama returned status code", <<status>>)
AnalysisTimedOut == AnalysisError("Error: Analysis timed out after", <<ANALYSIS_TIMEOUT>>)
CannotConnect ==
  AnalysisError("Error: Cannot connect to Ollama. Please ensure Ollama is running.", <<>>)
ErrorDuringAnalysis(e) == AnalysisError("Error during analysis:", <<e>>)

(* The default of result.get("response", "No analysis generated") *)
NoAnalysisGenerated ==
  <<"N", "o", " ", "a", "n", "a", "l", "y", "s", "i", "s", " ",
    "g", "e", "n", "e", "r", "a", "t", "e", "d">>

(* Line 370: model name, time of generation, source of the book. *)
Footer(b, t) == <<[model |-> model, generated |-> t, source |-> b.info.source_url]>>

(* Lines 365-383: what the call returns on the reply to the generation POST. *)
AnalysisOutcome(reply, b, t) ==
  IF reply.outcome = "Timeout" THEN AnalysisTimedOut
  ELSE IF reply.outcome = "ConnectionError" THEN CannotConnect
  ELSE IF reply.outcome # "response" THEN ErrorDuringAnalysis(reply.outcome)
  ELSE IF reply.status # 200 THEN StatusError(reply.status)
  ELSE IF reply.json # "object" THEN ErrorDuringAnalysis("ValueError")
  ELSE LET analysis == CASE reply.field = "absent" -> <<NoAnalysisGenerated>>
                         [] reply.field = "null" -> <<>>
                         [] OTHER -> <<reply.text>>
       IN IF Len(analysis) = 1 /\ analysis[1] # <<>>
             /\ Len(Strip(analysis[1])) > MinAnalysisLen
          THEN Analysis(analysis[1], Footer(b, t))
          ELSE EmptyResponse

ProceedsUnprobed(r) == TRUE

(* Line 304: the call goes on to the generation request. *)
Proceeds(r) == r.available

(* Lines 297-303: the test of the book, then the probe POST. *)
AnalyzeCall(b, type) ==
  /\ apc = "idle"
  /\ book' = b
  /\ analysis_type' = type
  /\ IF BookAbsent(b)
     THEN /\ aresult' = NoBookSelected
          /\ apc' = "done"
          /\ UNCHANGED posts
     ELSE /\ posts' = <<ProbePost>>
          /\ apc' = "probe_wait"
          /\ UNCHANGED aresult
  /\ UNCHANGED <<clockVars, searchVars, otherVars, descVars, available, aresponse>>

(* Lines 303-361: the probe's verdict, then the prompt and the generation POST. *)
ProbeReply(reply) ==
  /\ apc = "probe_wait"
  /\ aresponse' = reply
  /\ available' = <<check_ollama_availability(reply)>>
  /\ IF Proceeds(check_ollama_availability(reply))
     THEN /\ posts' = Append(posts, GeneratePost(Prompt(book, analysis_type)))
          /\ apc' = "generate_wait"
          /\ UNCHANGED aresult
     ELSE /\ aresult' = OllamaError(check_ollama_availability(reply))
          /\ apc' = "done"
          /\ UNCHANGED posts
  /\ UNCHANGED <<clockVars, searchVars, otherVars, descVars, book, analysis_type>>

(* Lines 363-383 *)
GenerateReply(reply) ==
  /\ apc = "generate_wait"
  /\ aresponse' = reply
  /\ aresult' = AnalysisOutcome(reply, book, now)
  /\ apc' = "done"
  /\ UNCHANGED <<clockVars, searchVars, otherVars, descVars, book, analysis_type, available, posts>>

(* The locals of a call of analyze_book_with_ollama are gone. *)
ReturnFromAnalysis ==
  /\ apc' = "idle"
  /\ book' = NoBook
  /\ analysis_type' = "summary"
  /\ available' = <<>>
  /\ aresponse' = NoPostReply
  /\ posts' = <<>>
  /\ aresult' = NoAnalysisYet

(* The caller has the result. *)
AnalyzeReturn ==
  /\ apc = "done"
  /\ ReturnFromAnalysis
  /\ UNCHANGED <<clockVars, searchVars, otherVars, descVars>>

-----------------------------------------------------------------------------
(* The Gradio interface, lines 389-532 *)

(* str.title() on the words of a genre. *)
TitleCase(w) ==
  CASE w = "mystery" -> "Mystery"
    [] w = "fantasy" -> "Fantasy"
    [] w = "fiction" -> "Fiction"
    [] w = "science" -> "Science"
    [] w = "sci-fi" -> "Sci-Fi"
    [] OTHER -> w

(* What a Markdown component shows. *)
Display(kind, message, heading, entries) ==
  [kind |-> kind, message |-> message, heading |-> heading, entries |-> entries]

(* Line 447: "Search for books by genre to get started!" *)
InitialDisplay == Display("initial", NoneYet, <<>>, <<>>)
MessageDisplay(message) == Display("message", message, <<>>, <<>>)

(* Line 263: book['publisher'][0] of an empty list. *)
EntryRaises(b) == b.publisher.items = <<>>

(* Lines 248-291: the lines of one book. *)
Entry(b) ==
  [title |-> b.title,
   by |-> FirstN(b.authors, 3),
   others |-> IF Len(b.authors) > 3 THEN Len(b.authors) - 3 ELSE 0,
   published |-> b.first_publish_year,
   pages |-> IF b.page_count # PyStr("Unknown") THEN <<b.page_count>> ELSE <<>>,
   publisher |-> IF b.publisher.items # <<>>
                    /\ b.publisher.items[1] # "Unknown Publisher"
                 THEN <<b.publisher.items>> ELSE <<>>,
   rating |-> IF b.rating.type \in {"int", "float"} THEN <<b.rating>> ELSE <<>>,
   source |-> IF b.source_url # <<"Not available">> THEN <<b.source_url>> ELSE <<>>,
   description |-> IF b.description # Placeholder(NoDescription)
                      /\ b.description # Placeholder("")
                   THEN <<b.description>> ELSE <<>>,
   subjects |-> IF b.subjects # <<>> THEN <<b.subjects>> ELSE <<>>,
   cover |-> IF Truthy(b.cover_id) THEN <<b.cover_id>> ELSE <<>>]

(* Lines 237-293.  "raised" names the exception that leaves the function. *)
format_books_display(res, g) ==
  IF res.kind # "books"
    THEN [raised |-> "", display |-> MessageDisplay(res)]
  ELSE IF res.books = <<>>
    THEN [raised |-> "", display |-> MessageDisplay(Message("No books found for genre", <<g.toks>>))]
  ELSE IF \E i \in 1..Len(res.books) : EntryRaises(res.books[i])
    THEN [raised |-> "IndexError", display |-> InitialDisplay]
  ELSE [raised |-> "",
        display |-> Display("listing", NoneYet,
                            <<[genre |-> [i \in 1..Len(g.toks) |-> TitleCase(g.toks[i])],
                               found |-> Len(res.books)]>>,
                            [i \in 1..Len(res.books) |-> Entry(res.books[i])])]

(* The characters of a title or of an author's name that a choice string   *)
(* is read by: the full stops and what is between them.                    *)
Spell(text) ==
  CASE text = "2. Emma" -> <<"2", ".", " ", "Emma">>
    [] text = "J. Austen" -> <<"J", ".", " ", "Austen">>
    [] text = "A. N. Other" -> <<"A", ".", " ", "N", ".", " ", "Other">>
    [] OTHER -> <<text>>

DigitChars == <<"0", "1", "2", "3", "4", "5", "6", "7", "8", "9">>

(* str(n) for n >= 0 *)
RECURSIVE Digits(_)
Digits(n) ==
  IF n < 10 THEN <<DigitChars[n + 1]>>
  ELSE Append(Digits(n \div 10), DigitChars[(n % 10) + 1])

IsDigit(c) == \E d \in 1..Len(DigitChars) : DigitChars[d] = c

DigitValue(c) == (CHOOSE d \in 1..Len(DigitChars) : DigitChars[d] = c) - 1

RECURSIVE Value(_)
Value(ds) ==
  IF ds = <<>> THEN 0
  ELSE Value(SubSeq(ds, 1, Len(ds) - 1)) * 10 + DigitValue(ds[Len(ds)])

(* int(text): surrounding whitespace is dropped, what is left must be      *)
(* digits; otherwise ValueError.                                           *)
ParseInt(text) ==
  LET ds == Strip(text)
  IN IF ds # <<>> /\ \A i \in 1..Len(ds) : IsDigit(ds[i])
     THEN [raised |-> "", value |-> Value(ds)]
     ELSE [raised |-> "ValueError", value |-> 0]

(* text.split('.')[0] *)
BeforeFirstDot(text) ==
  IF \E i \in 1..Len(text) : text[i] = "."
  THEN SubSeq(text, 1, (CHOOSE i \in 1..Len(text) :
                          text[i] = "." /\ \A j \in 1..(i - 1) : text[j] # ".") - 1)
  ELSE text

(* ', '.join(names) *)
RECURSIVE JoinNames(_)
JoinNames(names) ==
  IF names = <<>> THEN <<>>
  ELSE IF Len(names) = 1 THEN Spell(names[1])
  ELSE Spell(names[1]) \o <<",", " ">> \o JoinNames(Tail(names))

(* Lines 468-471: the choice of the book at position i, counted from 0. *)
Choice(i, b) ==
  Digits(i + 1) \o <<".", " ">> \o Spell(b.title) \o <<" ", "by", " ">>
  \o JoinNames(FirstN(b.authors, 2))
  \o (IF Len(b.authors) > 2 THEN <<" ", "et", " ", "al", ".">> ELSE <<>>)

Dropdown(choices, value) == [choices |-> choices, value |-> value]

Status(text, message, found, chosen) ==
  [text |-> text, message |-> message, found |-> found, chosen |-> chosen]

NoStatus == Status("", NoneYet, 0, <<>>)
SearchFailed(message) == Status("Search failed:", message, 0, <<>>)
Found(n) == Status("Found books in", NoneYet, n, <<>>)
PleaseSearchFirst == Status("Please search for books first", NoneYet, 0, <<>>)
SelectedStatus(b) == Status("Selected:", NoneYet, 0, <<b>>)
InvalidSelection == Status("Invalid book selection", NoneYet, 0, <<>>)
ErrorSelecting == Status("Error selecting book: Please try again", NoneYet, 0, <<>>)

(* Lines 458-486: what search_and_update does with the result of the       *)
(* search.                                                                 *)
search_and_update(res, g) ==
  IF res.kind # "books"
  THEN [raised |-> "", books_display |-> MessageDisplay(res),
        book_selector |-> Dropdown(<<>>, <<>>), books_state |-> <<>>,
        status_display |-> SearchFailed(res)]
  ELSE LET formatted == format_books_display(res, g)
       IN [raised |-> formatted.raised, books_display |-> formatted.display,
           book_selector |->
             Dropdown([i \in 1..Len(res.books) |-> Choice(i - 1, res.books[i])], <<>>),
           books_state |-> res.books,
           status_display |-> Found(Len(res.books))]

BookIndexNoOffset(book_choice) == ParseInt(BeforeFirstDot(book_choice)).value

(* Line 495: int(book_choice.split('.')[0]) - 1 *)
BookIndex(book_choice) == ParseInt(BeforeFirstDot(book_choice)).value - 1

(* Lines 488-505.  book_choice is <<>> (None) or <<text>>. *)
select_book_from_dropdown(book_choice, bs) ==
  IF book_choice = <<>> \/ book_choice = << <<>> >> \/ bs = <<>>
    THEN [selected |-> <<>>, status |-> PleaseSearchFirst]
  ELSE IF ParseInt(BeforeFirstDot(book_choice[1])).raised # ""
    THEN [selected |-> <<>>, status |-> ErrorSelecting]
  ELSE LET book_index == BookIndex(book_choice[1])
       IN IF 0 <= book_index /\ book_index < Len(bs)
          THEN [selected |-> <<bs[book_index + 1]>>,
                status |-> SelectedStatus(bs[book_index + 1])]
          ELSE [selected |-> <<>>, status |-> InvalidSelection]

PleaseSelectFirst == AnalysisError("Please select a book first", <<>>)

(* search_btn.click, line 458: search_and_update calls the search. *)
SearchClick(g) ==
  /\ apc = "idle"
  /\ SearchCall(g, DefaultLimit)

(* Lines 460-486 and 515-519: the search has returned; the outputs are     *)
(* assigned unless an exception leaves the handler.                        *)
SearchUpdate ==
  /\ spc = "done"
  /\ LET out == search_and_update(result, genre_in)
     IN IF out.raised # ""
        THEN UNCHANGED <<books_state, selected_book_state, book_selector,
                         books_display, status_display>>
        ELSE /\ books_display' = out.books_display
             /\ book_selector' = out.book_selector
             /\ books_state' = out.books_state
             /\ selected_book_state' = <<>>
             /\ status_display' = out.status_display
  /\ ui_raised' = search_and_update(result, genre_in).raised
  /\ ui_event' = "search"
  /\ ReturnFromSearch
  /\ UNCHANGED <<clockVars, descVars, analyzeVars, probeVars, setupVars,
                 analysis_display>>

(* book_selector.change, lines 521-525: the dropdown takes the value       *)
(* book_choice and select_book_from_dropdown runs.                         *)
Choose(book_choice) ==
  /\ spc = "idle" /\ apc = "idle"
  /\ book_selector' = [book_selector EXCEPT !.value = book_choice]
  /\ LET out == select_book_from_dropdown(book_choice, books_state)
     IN /\ selected_book_state' = out.selected
        /\ status_display' = out.status
  /\ ui_event' = "select"
  /\ ui_raised' = ""
  /\ UNCHANGED <<clockVars, searchVars, descVars, analyzeVars, probeVars,
                 setupVars, books_state, books_display, analysis_display>>

(* analyze_btn.click, lines 507-511, with no book selected. *)
AnalyzeClickNoBook ==
  /\ spc = "idle" /\ apc = "idle"
  /\ selected_book_state = <<>>
  /\ analysis_display' = PleaseSelectFirst
  /\ ui_event' = "analyze"
  /\ ui_raised' = ""
  /\ UNCHANGED <<clockVars, searchVars, descVars, analyzeVars, probeVars,
                 setupVars, books_state, selected_book_state, book_selector,
                 books_display, status_display>>

(* analyze_btn.click, line 512: the selected book goes to the analysis. *)
AnalyzeClick(type) ==
  /\ spc = "idle"
  /\ selected_book_state # <<>>
  /\ AnalyzeCall(BookArg("record", selected_book_state[1]), type)

(* Lines 512-513 and 527-531: the analysis has returned and is shown. *)
AnalysisShown ==
  /\ apc = "done"
  /\ analysis_display' = aresult
  /\ ui_event' = "analyze"
  /\ ui_raised' = ""
  /\ ReturnFromAnalysis
  /\ UNCHANGED <<clockVars, searchVars, descVars, probeVars, setupVars,
                 books_state, selected_book_state, book_selector,
                 books_display, status_display>>

(* The docs the interface is tried with: a title and authors with full     *)
(* stops, and every other field absent, with values, or an empty list.     *)
DotBook ==
  Doc(<<"2. Emma">>, << <<"J. Austen", "A. N. Other", "Third Author">> >>,
      <<"1815">>, <<>>, <<>>)

OptionalVariants ==
  {Dune,
   [Dune EXCEPT !.publisher = <<PyList(<<"Ace">>)>>],
   [Dune EXCEPT !.publisher = <<PyList(<<>>)>>],
   [Dune EXCEPT !.isbn = <<PyList(<<"0441172717">>)>>],
   [Dune EXCEPT !.isbn = <<PyList(<<>>)>>],
   [Dune EXCEPT !.cover_i = <<PyInt("11481354")>>],
   [Dune EXCEPT !.cover_i = <<PyList(<<>>)>>],
   [Dune EXCEPT !.ratings_average = <<PyFloat("4.3")>>],
   [Dune EXCEPT !.ratings_average = <<PyList(<<>>)>>],
   [Dune EXCEPT !.number_of_pages_median = <<PyInt("612")>>],
   [Dune EXCEPT !.number_of_pages_median = <<PyList(<<>>)>>],
   [Dune EXCEPT !.subject = <<>>],
   [Dune EXCEPT !.subject = << <<>> >>],
   [Dune EXCEPT !.key = <<>>],
   [Dune EXCEPT !.key = <<"">>]}

(* The replies to a search whose docs try the optional fields. *)
DisplaySearchReplies ==
  {SearchReply("Timeout", 0, "none", <<>>), SearchReply("response", 500, "none", <<>>),
   SearchReply("response", 200, "object", <<>>),
   SearchReply("response", 200, "object", <<Dune, DotBook>>),
   SearchReply("response", 200, "object", <<Dune, Dune>>)}
  \cup {SearchReply("response", 200, "object", <<d>>) : d \in OptionalVariants}

DisplayGenreArgs ==
  {NoGenre, GenreArg(FALSE, <<"*", " ", "mystery">>), GenreArg(FALSE, <<"*", " ", "fantasy">>)}

(* The replies to the searches of a session: the docs of a shelf, or one   *)
(* doc with an empty list of publishers.                                   *)
Shelf == <<Dune, DotBook, Emma>>

UISearchReplies ==
  {SearchReply("Timeout", 0, "none", <<>>),
   SearchReply("response", 200, "object", <<[Dune EXCEPT !.publisher = <<PyList(<<>>)>>]>>)}
  \cup {SearchReply("response", 200, "object", FirstN(Shelf, n)) : n \in 0..Len(Shelf)}

(* A description as text and as {value: text}. *)
UIDetailReplies ==
  {BodyReply("str", <<"a", "<", "a", ">", " ">>),
   BodyReply("dict", <<"a", "<", "a", ">", " ">>)}

UIGenreArgs == {NoGenre, GenreArg(FALSE, <<"*", " ", "mystery">>)}

(* What the user may type where the dropdown offers its choices. *)
CustomChoices ==
  {<<"0", ".", " ", "x">>, <<"x", ".", "1">>, <<".", "1">>,
   <<" ", "1", " ", ".", "x">>, <<"1", "0", ".", " ", "x">>}

BookChoices ==
  {<<>>, << <<>> >>}
  \cup {<<book_selector.choices[i]>> : i \in 1..Len(book_selector.choices)}
  \cup {<<c>> : c \in CustomChoices}

UIProbeReplies ==
  {PostReply("ConnectionError", 0, "none", "absent", <<>>),
   PostReply("response", 200, "object", "str", <<"a">>)}

UIGenerateReplies == {PostReply("Timeout", 0, "none", "absent", <<>>)}

-----------------------------------------------------------------------------
(* The setup script, src/test_setup.py *)

(* What the script finds: python-dotenv importable, a file .env present. *)
Environment(dotenv, env_file) == [dotenv |-> dotenv, env_file |-> env_file]

(* main, lines 285-295: the checks in the order they are run. *)
CheckNames ==
  <<"Python Version", "Virtual Environment", "Required Packages",
    "Environment File", "Project Structure", "Ollama Installation",
    "Ollama Models", "Ollama Service", "Open Library API">>

Test(name, passed) == [name |-> name, passed |-> passed]

(* Line 298 *)
ollama_service_running(ts) ==
  \E i \in 1..Len(ts) : ts[i].name = "Ollama Service" /\ ts[i].passed

(* Line 305 *)
Passed(ts) == Len(SelectSeq(ts, LAMBDA t : t.passed))

(* The script is started: lines 323-325 and 281-282. *)
SetupStart(e) ==
  /\ tpc = "idle"
  /\ tpc' = "checks"
  /\ env' = e
  /\ UNCHANGED <<clockVars, searchVars, descVars, analyzeVars, probeVars, uiVars,
                 tests, recommended, exit_status>>

(* What the next check returns, "raised" naming the exception that leaves  *)
(* it.  check_required_packages (lines 77-82) fails when an import fails;  *)
(* check_environment_file returns False without .env (lines 92-94), and    *)
(* imports dotenv outside any try (line 99) before it returns True.        *)
CheckOutcome(name, e, ok) ==
  CASE name = "Required Packages" -> [raised |-> "", passed |-> ok /\ e.dotenv]
    [] name = "Environment File" ->
         IF ~e.env_file THEN [raised |-> "", passed |-> FALSE]
         ELSE IF ~e.dotenv THEN [raised |-> "ImportError", passed |-> FALSE]
         ELSE [raised |-> "", passed |-> TRUE]
    [] OTHER -> [raised |-> "", passed |-> ok]

(* Lines 285-295: the next check of the list is run; an exception that     *)
(* leaves it leaves main and is handled at lines 330-332.                  *)
RunCheck(ok) ==
  /\ tpc = "checks"
  /\ LET name == CheckNames[Len(tests) + 1]
         outcome == CheckOutcome(name, env, ok)
         ran == Append(tests, Test(name, outcome.passed))
     IN IF outcome.raised # ""
        THEN /\ tpc' = "exited"
             /\ exit_status' = <<1>>
             /\ UNCHANGED tests
        ELSE /\ tests' = ran
             /\ tpc' = IF Len(ran) < Len(CheckNames) THEN "checks"
                       ELSE IF ollama_service_running(ran) THEN "model_test"
                       ELSE "summary"
             /\ UNCHANGED exit_status
  /\ UNCHANGED <<clockVars, searchVars, descVars, analyzeVars, probeVars, uiVars,
                 env, recommended>>

(* Lines 298-300: test_ollama_model, run when the service check passed. *)
ModelTest(ok) ==
  /\ tpc = "model_test"
  /\ tests' = Append(tests, Test("Ollama Model Test", ok))
  /\ tpc' = "summary"
  /\ UNCHANGED <<clockVars, searchVars, descVars, analyzeVars, probeVars, uiVars,
                 env, recommended, exit_status>>

(* Lines 302-326: the summary, the recommendations, the exit status. *)
Summary ==
  /\ tpc = "summary"
  /\ recommended' = (Passed(tests) # Len(tests))
  /\ exit_status' = IF Passed(tests) = Len(tests) THEN <<0>> ELSE <<1>>
  /\ tpc' = "exited"
  /\ UNCHANGED <<clockVars, searchVars, descVars, analyzeVars, probeVars, uiVars,
                 env, tests>>

(* Lines 327-329: the user interrupts the script. *)
Interrupt ==
  /\ tpc \in {"checks", "model_test", "summary"}
  /\ tpc' = "exited"
  /\ exit_status' = <<1>>
  /\ UNCHANGED <<clockVars, searchVars, descVars, analyzeVars, probeVars, uiVars,
                 env, tests, recommended>>

-----------------------------------------------------------------------------
(* The instance after __init__ (lines 14-31), no call under way. *)
Init ==
  /\ now = 1
  /\ last_request_time = <<>>
  /\ spc = "idle"
  /\ genre_in = NoGenre
  /\ genre = <<>>
  /\ limit = 0
  /\ params = NoParams
  /\ response = NoResponse
  /\ idx = 0
  /\ books = <<>>
  /\ accepted = <<>>
  /\ primary_valid = <<>>
  /\ result = NoneYet
  /\ requests = <<>>
  /\ fetches = <<>>
  /\ dpc = "idle"
  /\ dkey = ""
  /\ dreply = NoReply
  /\ dresult = NoResult
  /\ placeholders = {}
  /\ apc = "idle"
  /\ book = NoBook
  /\ analysis_type = "summary"
  /\ available = <<>>
  /\ aresponse = NoPostReply
  /\ posts = <<>>
  /\ aresult = NoAnalysisYet
  /\ cpc = "idle"
  /\ checks = <<>>
  /\ probe_posts = 0
  /\ tpc = "idle"
  /\ env = Environment(TRUE, TRUE)
  /\ tests = <<>>
  /\ recommended = FALSE
  /\ exit_status = <<>>
  /\ books_state = <<>>
  /\ selected_book_state = <<>>
  /\ book_selector = Dropdown(<<>>, <<>>)
  /\ books_display = InitialDisplay
  /\ analysis_display = NoAnalysisYet
  /\ status_display = NoStatus
  /\ ui_event = "none"
  /\ ui_raised = ""

(* get_book_description called on its own, over and over. *)
NextDesc ==
  \/ \E reply \in DetailReplies : DescCall("/works/OL1W", reply)
  \/ DescCall("", NoReply)
  \/ DescReturn
  \/ DescReset

SpecDesc == Init /\ [][NextDesc]_vars

(* One call of search_books_by_genre on a new instance. *)
NextSearch ==
  \/ \E g \in GenreArgs, l \in Limits : SearchCall(g, l)
  \/ \E reply \in SearchReplies(MaxDocs) : PrimaryReply(reply)
  \/ \E on_alias \in BOOLEAN, detail \in SearchDetailReplies : LoopStep(on_alias, detail)
  \/ AfterPrimary
  \/ \E reply \in SearchReplies(MaxDocs) : AliasReply(reply)
  \/ AfterAlias

SpecSearch == Init /\ [][NextSearch]_vars

(* Calls of search_books_by_genre one after the other, time passing in     *)
(* between, against small payloads.                                        *)
RateGenreArgs ==
  {NoGenre, GenreArg(FALSE, <<>>), GenreArg(FALSE, <<" ", "\t">>),
   GenreArg(FALSE, <<"sci-fi">>), GenreArg(FALSE, <<"*", " ", "mystery">>)}

NextRate ==
  \/ \E g \in RateGenreArgs : SearchCall(g, DefaultLimit)
  \/ \E reply \in SearchReplies(MaxRateDocs) : PrimaryReply(reply)
  \/ \E on_alias \in BOOLEAN, detail \in SearchDetailReplies : LoopStep(on_alias, detail)
  \/ AfterPrimary
  \/ \E reply \in SearchReplies(MaxRateDocs) : AliasReply(reply)
  \/ AfterAlias
  \/ SearchReturn
  \/ Tick

SpecRate == Init /\ [][NextRate]_vars

(* Calls of analyze_book_with_ollama one after the other. *)
NextAnalyze ==
  \/ \E b \in BookArgs, type \in AnalysisTypes : AnalyzeCall(b, type)
  \/ \E reply \in ProbeReplies : ProbeReply(reply)
  \/ \E reply \in GenerateReplies : GenerateReply(reply)
  \/ AnalyzeReturn

SpecAnalyze == Init /\ [][NextAnalyze]_vars

(* Calls of check_ollama_availability one after the other. *)
NextProbe ==
  \/ CheckCall
  \/ \E reply \in ProbeReplies : CheckReply(reply)

SpecProbe == Init /\ [][NextProbe]_vars

(* The events of the interface, one handler at a time. *)
NextUI ==
  \/ \E g \in UIGenreArgs : SearchClick(g)
  \/ \E reply \in UISearchReplies : PrimaryReply(reply)
  \/ \E detail \in UIDetailReplies : LoopStep(FALSE, detail)
  \/ AfterPrimary
  \/ SearchUpdate
  \/ \E book_choice \in BookChoices : Choose(book_choice)
  \/ AnalyzeClickNoBook
  \/ \E type \in {"summary", "discussion"} : AnalyzeClick(type)
  \/ \E reply \in UIProbeReplies : ProbeReply(reply)
  \/ \E reply \in UIGenerateReplies : GenerateReply(reply)
  \/ AnalysisShown

SpecUI == Init /\ [][NextUI]_vars

(* Searches from the interface, their docs trying the optional fields. *)
NextDisplay ==
  \/ \E g \in DisplayGenreArgs : SearchClick(g)
  \/ \E reply \in DisplaySearchReplies : PrimaryReply(reply)
  \/ \E on_alias \in BOOLEAN, detail \in UIDetailReplies : LoopStep(on_alias, detail)
  \/ AfterPrimary
  \/ \E reply \in DisplaySearchReplies : AliasReply(reply)
  \/ AfterAlias
  \/ SearchUpdate

SpecDisplay == Init /\ [][NextDisplay]_vars

(* One run of test_setup.py. *)
NextSetup ==
  \/ \E dotenv \in BOOLEAN, env_file \in BOOLEAN :
       SetupStart(Environment(dotenv, env_file))
  \/ \E ok \in BOOLEAN : RunCheck(ok)
  \/ \E ok \in BOOLEAN : ModelTest(ok)
  \/ Summary
  \/ Interrupt

SpecSetup == Init /\ [][NextSetup]_vars

-----------------------------------------------------------------------------
(* Properties *)

CompleteDocs(docs) == SelectSeq(docs, Complete)

IsPrefix(s, t) == Len(s) <= Len(t) /\ SubSeq(t, 1, Len(s)) = s

(* The records of bs are those of the docs ds, one for one and in order. *)
BuiltFrom(bs, ds) ==
  /\ Len(bs) = Len(ds)
  /\ \A i \in 1..Len(ds) :
       /\ <<bs[i].title>> = ds[i].title
       /\ <<bs[i].authors>> = ds[i].author_name
       /\ <<bs[i].first_publish_year>> = ds[i].first_publish_year

Absent(b) == b.kind # "record"

(* C3: analyze_book_with_ollama called without a book returns the message  *)
(* "No book selected for analysis." and sends no POST, neither the probe   *)
(* nor the generation request.                                             *)
C3_NoBookNoRequest ==
  (apc # "idle" /\ Absent(book)) =>
     /\ apc = "done"
     /\ aresult = NoBookSelected
     /\ posts = <<>>

C3_Witness ==
  /\ apc = "done"
  /\ book.kind = "empty"
  /\ aresult = NoBookSelected
  /\ posts = <<>>

(* The probe POST was answered with status 200 and a response field. *)
ProbeSucceeded(reply) ==
  /\ reply.outcome = "response"
  /\ reply.status = 200
  /\ reply.json = "object"
  /\ reply.field # "absent"

Generations(log) == SelectSeq(log, LAMBDA p : p.purpose = "generate")

(* C4: the generation POST is sent only after the probe of the same call   *)
(* reported available; when the probe reports unavailable no generation    *)
(* POST is sent and the call returns the message that tells to run         *)
(* "ollama serve".                                                         *)
C4_GenerateOnlyAfterProbe ==
  /\ Generations(posts) # <<>> =>
       /\ Len(posts) = 2
       /\ posts[1].purpose = "probe"
       /\ posts[2].purpose = "generate"
       /\ Len(available) = 1 /\ available[1].available
  /\ apc = "generate_wait" => ProbeSucceeded(aresponse)
  /\ (apc = "done" /\ Len(posts) = 1) =>
       /\ ~ProbeSucceeded(aresponse)
       /\ aresult = OllamaError(available[1])
       /\ aresult.kind = "message"
  /\ (Len(available) = 1 /\ ~available[1].available) =>
       /\ Generations(posts) = <<>>
       /\ apc = "done"

(* The probe came back with status 200 and no response field. *)
C4_Witness ==
  /\ apc = "done"
  /\ book.kind = "record"
  /\ aresponse.outcome = "response" /\ aresponse.status = 200
  /\ aresponse.field = "absent"
  /\ Len(posts) = 1
  /\ aresult.kind = "message"

NonSpaceCount(text) == Len(SelectSeq(text, LAMBDA c : ~IsSpace(c)))

(* C5: on a generation reply of status 200 the call returns the text with  *)
(* the footer exactly when the body carries a response text of more than   *)
(* 10 non-whitespace characters, and the empty-response message otherwise. *)
C5_FooterIffSubstantial ==
  (/\ apc = "done" /\ Len(posts) = 2
   /\ aresponse.outcome = "response" /\ aresponse.status = 200
   /\ aresponse.json = "object") =>
     IF aresponse.field = "str" /\ NonSpaceCount(aresponse.text) > MinAnalysisLen
     THEN aresult = Analysis(aresponse.text, Footer(book, now))
     ELSE aresult = EmptyResponse

(* The detail request brought a description, as text or as {value: text}. *)
Described(reply) ==
  /\ reply.outcome = "response" /\ reply.status = 200 /\ reply.json = "object"
  /\ reply.shape \in {"str", "dict"}

(* C6: a sanitized description of more than 500 characters comes back as   *)
(* its first 500 characters followed by "...", one of 1 to 500 characters  *)
(* comes back unchanged.                                                   *)
C6_TruncatedAt500 ==
  (dpc = "done" /\ dkey # "" /\ Described(dreply)) =>
     LET clean == Sanitize(dreply.text)
     IN /\ dresult.raised = ""
        /\ Len(clean) > DescriptionLimit =>
             dresult.value = DescriptionText(SubSeq(clean, 1, DescriptionLimit) \o Ellipsis)
        /\ (Len(clean) >= 1 /\ Len(clean) <= DescriptionLimit) =>
             dresult.value = DescriptionText(clean)

(* A {value: text} description cut to 500 characters and the ellipsis. *)
C6_Witness ==
  /\ dpc = "done"
  /\ dreply.shape = "dict"
  /\ Len(dreply.text) > Len(Sanitize(dreply.text))
  /\ Len(Sanitize(dreply.text)) > DescriptionLimit
  /\ Len(dresult.value.text) = DescriptionLimit + 3

(* C7: get_book_description never raises and answers every failed or empty *)
(* fetch (transport failure, status other than 200, no description field,  *)
(* empty description) with one and the same placeholder.                   *)
C7_OnePlaceholder ==
  /\ dresult.raised = ""
  /\ Cardinality(placeholders) <= 1

(* The genre argument is None, empty or whitespace only. *)
Blank(g) == g.none \/ \A i \in 1..Len(g.toks) : IsSpace(g.toks[i])

(* C8: a call with a genre that is None, empty or whitespace only returns  *)
(* the invalid-genre message, sends no request and leaves                  *)
(* last_request_time as it was.                                            *)
C8_BlankGenreRejected ==
  [][(spc = "idle" /\ spc' # "idle" /\ Blank(genre_in')) =>
       /\ spc' = "done"
       /\ result' = InvalidGenreMessage
       /\ requests' = <<>>
       /\ last_request_time' = last_request_time
       /\ now' = now]_vars

(* A whitespace-only genre rejected on an instance that searched before. *)
C8_Witness ==
  /\ spc = "done"
  /\ ~genre_in.none /\ genre_in.toks # <<>> /\ Blank(genre_in)
  /\ result = InvalidGenreMessage
  /\ last_request_time # <<>>

(* C9: for every limit >= 0 the search asks for min(limit * 2, 40) raw     *)
(* results and returns at most limit records.                              *)
C9_AtMostLimit ==
  /\ requests # <<>> => requests[1].limit = Min(limit * 2, 40)
  /\ result.kind = "books" => Len(result.books) <= limit

(* C10: a search request, primary or alias, that times out, fails in       *)
(* transport or comes back with a status other than 200 makes the call     *)
(* return the message of that failure; at most two search requests are     *)
(* sent.                                                                   *)
C10_FailureReported ==
  /\ Len(SearchRequests(requests)) <= 2
  /\ (spc = "done" /\ requests # <<>>) =>
       /\ response.outcome = "Timeout" => result = TimeoutMessage
       /\ response.outcome \in {"ConnectionError", "Exception"} =>
            result = ExceptionMessage(response.outcome)
       /\ (response.outcome = "response" /\ response.status # 200) =>
            result = ApiErrorMessage(response.status)

(* The generation POST was answered with status 200 and a body. *)
Generated(reply) ==
  reply.outcome = "response" /\ reply.status = 200 /\ reply.json = "object"

(* Output that is empty or trivial: no response text, or one of at most 10 *)
(* non-whitespace characters.                                              *)
TrivialOutput(reply) ==
  ~(reply.field = "str" /\ NonSpaceCount(reply.text) > MinAnalysisLen)

(* C11: after a successful probe, a generation request that comes back     *)
(* with status 200 and empty or trivial output, with another status, with  *)
(* a timeout or with a connection failure makes the call return the        *)
(* message of that case; the four messages differ pairwise and each is     *)
(* returned as a value.                                                    *)
C11_FourDistinctMessages ==
  (apc = "done" /\ Len(posts) = 2) =>
     /\ (Generated(aresponse) /\ TrivialOutput(aresponse)) => aresult = EmptyResponse
     /\ (aresponse.outcome = "response" /\ aresponse.status # 200) =>
          aresult = StatusError(aresponse.status)
     /\ aresponse.outcome = "Timeout" => aresult = AnalysisTimedOut
     /\ aresponse.outcome = "ConnectionError" => aresult = CannotConnect
     /\ \A s \in {404, 500} :
          Cardinality({EmptyResponse.text, StatusError(s).text,
                       AnalysisTimedOut.text, CannotConnect.text}) = 4

(* The probe failed in one of the three ways the status text tells apart:  *)
(* "refused", "timeout", "malformed" (status 200, no response field), or   *)
(* "other".                                                                *)
ProbeFailure(reply) ==
  CASE reply.outcome = "ConnectionError" -> "refused"
    [] reply.outcome = "Timeout" -> "timeout"
    [] reply.outcome = "response" /\ reply.status = 200
       /\ reply.json = "object" /\ reply.field = "absent" -> "malformed"
    [] OTHER -> "other"

(* C12: check_ollama_availability reports available exactly when the      *)
(* probe POST came back with status 200 and a body with a response field;  *)
(* connection refused, timeout and a status-200 body without the field     *)
(* are reported unavailable with three different status texts; every call  *)
(* returns a value, and every call sends its own probe POST, its answer    *)
(* depending on the reply to that POST alone.                              *)
C12_ProbeVerdict ==
  /\ probe_posts = Len(checks) + (IF cpc = "wait" THEN 1 ELSE 0)
  /\ \A i \in 1..Len(checks) :
       LET c == checks[i]
       IN /\ c.returned.available \in BOOLEAN
          /\ c.returned.available <=> ProbeSucceeded(c.reply)
          /\ ProbeFailure(c.reply) # "other" => ~c.returned.available
          /\ \A j \in 1..Len(checks) :
               (/\ ProbeFailure(c.reply) # "other"
                /\ ProbeFailure(checks[j].reply) # "other"
                /\ ProbeFailure(c.reply) # ProbeFailure(checks[j].reply)) =>
                  c.returned.text # checks[j].returned.text

(* A probe that succeeded, then one on the same instance that timed out. *)
C12_Witness ==
  /\ cpc = "idle"
  /\ Len(checks) = 2
  /\ checks[1].returned.available
  /\ checks[2].reply.outcome = "Timeout"
  /\ ~checks[2].returned.available
  /\ probe_posts = 2

(* C13: any two consecutive requests to the metadata service, be they      *)
(* primary searches, alias searches or description requests, are at least  *)
(* min_request_interval apart on the clock _rate_limit reads.              *)
C13_RequestsSpaced ==
  \A i \in 1..(Len(requests) - 1) :
    requests[i + 1].at - requests[i].at >= min_request_interval

(* C15: every record returned, from the primary search or from the alias   *)
(* search, has the subject list of its doc as subjects when the doc has a  *)
(* non-empty one, and the one-element list of the searched genre           *)
(* otherwise.                                                              *)
C15_SubjectsFromUpstream ==
  result.kind = "books" =>
    \A i \in 1..Len(result.books) :
      result.books[i].subjects =
        IF accepted[i].subject # <<>> /\ accepted[i].subject # << <<>> >>
        THEN accepted[i].subject[1]
        ELSE <<genre>>

C18_PrimaryListAndFetches ==
  (spc = "done" /\ result.kind = "books" /\ Len(SearchRequests(requests)) = 1) =>
     /\ accepted = FirstN(CompleteDocs(response.docs), limit)
     /\ BuiltFrom(result.books, accepted)
     /\ Len(fetches) = Len(result.books)
     /\ \A i \in 1..Len(result.books) :
          /\ fetches[i].key = result.books[i].key
          /\ result.books[i].description = fetches[i].description
          /\ result.books[i].description #
               Placeholder("Description will be fetched separately")

(* C17: test_setup.py exits with status 0 exactly when every check it ran  *)
(* passed; when a check failed it has printed the recommendations before   *)
(* it exits with another status; the model test is run only when the       *)
(* check "Ollama Service" passed.                                          *)
C17_ExitStatus ==
  /\ tpc = "exited" =>
       /\ exit_status = <<0>> <=> \A i \in 1..Len(tests) : tests[i].passed
       /\ (\E i \in 1..Len(tests) : ~tests[i].passed) =>
            recommended /\ exit_status # <<0>>
  /\ (\E i \in 1..Len(tests) : tests[i].name = "Ollama Model Test") =>
       \E j \in 1..Len(tests) : tests[j].name = "Ollama Service" /\ tests[j].passed

(* C14: search_and_update returns a text outcome and raises nothing, for   *)
(* every genre and for every payload whose docs carry each of publisher,   *)
(* subject, isbn, cover_i, ratings_average, number_of_pages_median and key *)
(* absent, with values, or as an empty list.                               *)
C14_SearchNeverRaises ==
  ui_event = "search" =>
    /\ ui_raised = ""
    /\ books_display.kind \in {"message", "listing"}

(* C19: after every event of the interface selected_book_state is None or  *)
(* a record of the current books_state with a non-empty title and at least *)
(* one author; a search that ends, with books or with a failure, puts its  *)
(* list, or the empty list on failure, in books_state and None in          *)
(* selected_book_state; the steps of an analysis change neither state.     *)
C19_UIStates ==
  [][/\ selected_book_state' # <<>> =>
          /\ \E i \in 1..Len(books_state') : books_state'[i] = selected_book_state'[1]
          /\ selected_book_state'[1].title # ""
          /\ selected_book_state'[1].authors # <<>>
     /\ (spc = "done" /\ spc' = "idle") =>
          /\ books_state' = (IF result.kind = "books" THEN result.books ELSE <<>>)
          /\ selected_book_state' = <<>>
     /\ (apc' # apc \/ posts' # posts \/ analysis_display' # analysis_display) =>
          UNCHANGED <<books_state, selected_book_state>>]_vars

(* C20: the choice that search_and_update built for a position of          *)
(* books_state, given to select_book_from_dropdown with books_state,       *)
(* selects the record at that position, full stops in the title and in    *)
(* the authors or not; a choice whose leading number is not a number or is *)
(* outside 1..len(books) selects nothing and sets an error status; no      *)
(* exception leaves the handler.                                           *)
C20_ChoiceRoundTrip ==
  ui_event = "select" =>
    /\ ui_raised = ""
    /\ \A i \in 1..Len(book_selector.choices) :
         book_selector.value = <<book_selector.choices[i]>> =>
           selected_book_state = <<books_state[i]>>
    /\ book_selector.value # <<>> =>
         LET leading == ParseInt(BeforeFirstDot(book_selector.value[1]))
         IN (leading.raised # "" \/ leading.value \notin 1..Len(books_state)) =>
              /\ selected_book_state = <<>>
              /\ status_display \in {InvalidSelection, ErrorSelecting, PleaseSearchFirst}

(* The second of three books, "2. Emma" by J. Austen and others, chosen. *)
C20_Witness ==
  /\ ui_event = "select"
  /\ Len(books_state) = 3
  /\ book_selector.value = <<book_selector.choices[2]>>
  /\ books_state[2].title = "2. Emma"
  /\ Len(SelectSeq(book_selector.choices[2], LAMBDA c : c = ".")) > 2
  /\ selected_book_state = <<books_state[2]>>
  /\ status_display = SelectedStatus(books_state[2])

====
